---- MODULE Spec2Model ----
(***************************************************************************)
(* Model of the support assistant: the conversation state machine          *)
(* (src/dialogue/state.py), the FAQ retrieval helper                       *)
(* (src/rag/simple_faq_rag.py), the two generation clients                 *)
(* (src/dialogue/llm_client.py, src/dialogue/ollama_client.py) and the     *)
(* paths that drive them (src/interfaces/console_app.py,                   *)
(* src/audio/io_loop.py, scripts/eval_rag_roundtrip.py).                   *)
(*                                                                         *)
(* Python strings are sequences of one-character strings; the timestamp    *)
(* and the enum name printed by Turn.__str__ are single tokens.            *)
(* Python values whose type is inspected by the code are records           *)
(* [type |-> ..., val |-> ...].                                            *)
(***************************************************************************)
EXTENDS Integers, Sequences, FiniteSets, TLC

VARIABLES
    session_id,       \* Session.session_id
    turns,            \* Session.turns
    active_role,      \* Session.active_role
    issue_summary,    \* Session.issue_summary
    escalated,        \* Session.escalated
    resolved,         \* Session.resolved
    now,              \* the clock read by Turn's timestamp default factory
    engaged,          \* history: mark_escalated called, no hand_back_to_bot since
    pre,              \* history: active_role and escalated when the last operation was called
    lastOp,           \* name of the last operation called
    lastArg,          \* its arguments
    lastRet,          \* its return value
    lastErr,          \* the exception it raised, or "none"
    faq_file,         \* content of data/support_faq.md
    VECTOR_DB,        \* simple_faq_rag.VECTOR_DB
    MODEL,            \* simple_faq_rag._MODEL
    LOADED_FAQ_TEXT,  \* simple_faq_rag._LOADED_FAQ_TEXT
    loadCalls,        \* number of calls of load_faq_markdown
    buildCalls,       \* number of calls of build_faq_index
    ctxReturned,      \* history: a get_rag_context call has returned normally
    app,              \* the entry point that is running, or "none"
    pc,               \* "idle", "running", "exited" (returned) or "raised" (left by an exception)
    sent,             \* the last call of the generation collaborator, a list of at most one call
    genCalls,         \* number of calls of the generation collaborator
    humanMode,        \* history: /human was entered and no /bot since
    branch            \* the responder branch taken for the last customer message

sessionVars == <<session_id, turns, active_role, issue_summary, escalated, resolved>>
callVars == <<lastOp, lastArg, lastRet, lastErr>>
ragVars == <<VECTOR_DB, MODEL, LOADED_FAQ_TEXT, loadCalls, buildCalls>>
loopVars == <<app, pc, sent, genCalls, humanMode, branch>>
vars == <<session_id, turns, active_role, issue_summary, escalated, resolved,
          now, engaged, pre, lastOp, lastArg, lastRet, lastErr,
          faq_file, VECTOR_DB, MODEL, LOADED_FAQ_TEXT, loadCalls, buildCalls,
          ctxReturned, app, pc, sent, genCalls, humanMode, branch>>

----------------------------------------------------------------------------
(* Bounds *)

MaxTurns == 2
MaxClock == 1
MaxCalls == 3
MaxChunks == 2
MaxLines == 4
MaxLoopTurns == 4

----------------------------------------------------------------------------
(* Values *)

CUSTOMER == "CUSTOMER"
BOT == "BOT"
HUMAN_AGENT == "HUMAN_AGENT"
SpeakerRole == {CUSTOMER, BOT, HUMAN_AGENT}

None == [type |-> "NoneType", val |-> <<>>]
NoArg == <<>>

Whitespace == {" ", "\n", "\t"}

\* texts given to add_turn: a one-line text and a two-line text
Texts == { <<"h", "i">>, <<"a", "\n", "b">> }

\* the speaker arguments: the three roles, and a plain string that is not a role
SpeakerArgs == {[type |-> "SpeakerRole", val |-> r] : r \in SpeakerRole}
                   \cup {[type |-> "str", val |-> "customer"]}

\* the text arguments: strings, and None
TextArgs == {[type |-> "str", val |-> t] : t \in Texts} \cup {None}

\* the summary arguments: strings with and without surrounding blanks, and None
SummaryArgs == {[type |-> "str", val |-> s] : s \in {<<" ", "x", "\n">>, <<"x">>}}
                   \cup {None}

Ns == (0 - 1) .. (MaxTurns + 1)

\* FAQ documents: an empty file, a file whose chunks are all of 10 characters
\* or fewer, and a file with two chunks
DocEmpty == <<>>
DocSmall == <<"#", " ", "A", "\n", "f", "o", "o", "\n", "b", "a", "r", "\n", "\n", "#", " ", "B", "\n", "b", "a", "z">>
DocFaq == <<"#", " ", "P", "l", "a", "n", "s", "\n", "c", "h", "a", "n", "g", "e", " ", "a", " ", "p", "l", "a", "n", "\n", "\n", "#", " ", "B", "i", "l", "l", "\n", "p", "a", "y", " ", "l", "a", "t", "e", " ", "f", "e", "e", "\n">>
Docs == {DocEmpty, DocSmall, DocFaq}

\* questions given to get_rag_context
Queries == { <<"p", "l", "a", "n">>, <<"f", "e", "e">>, <<>> }

Ks == (0 - 1) .. 3

\* chunk texts given to build_faq_index: their embeddings are (1,0), (0,1)
\* and (1,1)
IndexTexts == { <<"n">>, <<"e">>, <<"n", "e">> }

\* the chunk lists given to build_faq_index
ChunkLists == UNION {[1..len -> IndexTexts] : len \in 0..MaxChunks}

\* What the environment does during one call: whether the file can be read,
\* sentence_transformers imported, the model constructed, the chunks and the
\* query encoded.  A call ends at its first failure, so the environments with
\* at most one failure give every outcome.
EnvOk == [file_ok |-> TRUE, import_ok |-> TRUE, model_ok |-> TRUE,
          encode_ok |-> TRUE, qencode_ok |-> TRUE]
Envs == {EnvOk,
         [EnvOk EXCEPT !.file_ok = FALSE],
         [EnvOk EXCEPT !.import_ok = FALSE],
         [EnvOk EXCEPT !.model_ok = FALSE],
         [EnvOk EXCEPT !.encode_ok = FALSE],
         [EnvOk EXCEPT !.qencode_ok = FALSE]}

----------------------------------------------------------------------------
(* Python helpers *)

Max(a, b) == IF a >= b THEN a ELSE b
Min(a, b) == IF a <= b THEN a ELSE b

\* seq[start:] with Python's treatment of negative and out-of-range starts
PySliceFrom(seq, start) ==
    LET len == Len(seq)
        lo == IF start < 0 THEN Max(len + start, 0) ELSE Min(start, len)
    IN SubSeq(seq, lo + 1, len)

\* seq[:stop] with Python's treatment of negative and out-of-range stops
PySliceTo(seq, stop) ==
    LET len == Len(seq)
        hi == IF stop < 0 THEN Max(len + stop, 0) ELSE Min(stop, len)
    IN SubSeq(seq, 1, hi)

RECURSIVE LStrip(_, _)
LStrip(s, chars) ==
    IF s # <<>> /\ Head(s) \in chars THEN LStrip(Tail(s), chars) ELSE s

RECURSIVE RStrip(_, _)
RStrip(s, chars) ==
    IF s # <<>> /\ s[Len(s)] \in chars THEN RStrip(SubSeq(s, 1, Len(s) - 1), chars) ELSE s

\* str.strip()
Strip(s) == RStrip(LStrip(s, Whitespace), Whitespace)

\* sep.join(parts)
RECURSIVE Join(_, _)
Join(sep, parts) ==
    IF parts = <<>> THEN <<>>
    ELSE IF Len(parts) = 1 THEN parts[1]
    ELSE parts[1] \o sep \o Join(sep, Tail(parts))

\* the lines the texts given to chunk_faq are made of: a heading, a heading
\* of the marker only, two body lines (one with blanks around it), an empty
\* line and a line of blanks
DocLines == { <<"#", " ", "P", "l", "a", "n", "s">>,
              <<"#">>,
              <<"a", "b", "c", "d">>,
              <<" ", "a", "b", "c", "d", "e", " ">>,
              <<>>,
              <<" ">> }

\* the texts given to chunk_faq: up to MaxLines lines, and the two FAQ files
ChunkDocs == {Join(<<"\n">>, ls) : ls \in UNION {[1..len -> DocLines] : len \in 0..MaxLines}}
                 \cup {DocSmall, DocFaq}

\* datetime.isoformat(), one token per clock value
IsoFormat(ts) == <<ToString(ts)>>

----------------------------------------------------------------------------
(* Turn *)

Turn(speaker, text, timestamp, meta) ==
    [speaker |-> speaker, text |-> text, timestamp |-> timestamp, meta |-> meta]

\* Turn.__str__
TurnStr(t) == IsoFormat(t.timestamp) \o <<" ">> \o <<t.speaker>> \o <<":", " ">> \o t.text

----------------------------------------------------------------------------
(* Session: the methods as functions from the session to the session after *)

Session == [session_id |-> session_id, turns |-> turns, active_role |-> active_role,
            issue_summary |-> issue_summary, escalated |-> escalated,
            resolved |-> resolved]

\* add_turn without the check of text
add_turn_error_speaker_only(speaker, text) ==
    IF speaker.type # "SpeakerRole" THEN "TypeError" ELSE "none"

\* the checks of add_turn: the exception raised, or "none"
add_turn_error(speaker, text) ==
    IF speaker.type # "SpeakerRole" THEN "TypeError"
    ELSE IF text.type # "str" THEN "TypeError"
    ELSE "none"

\* add_turn handing over to the bot after everyone but the bot
add_turn_bot_only(s, speaker, text, ts) ==
    LET turn == Turn(speaker, text, ts, <<>>)
        role == IF s.escalated THEN HUMAN_AGENT
                ELSE IF speaker = BOT THEN CUSTOMER
                ELSE BOT
    IN [s EXCEPT !.turns = Append(s.turns, turn), !.active_role = role]

\* add_turn without the escalation override
add_turn_no_override(s, speaker, text, ts) ==
    LET turn == Turn(speaker, text, ts, <<>>)
        role == IF speaker = CUSTOMER THEN BOT ELSE CUSTOMER
    IN [s EXCEPT !.turns = Append(s.turns, turn), !.active_role = role]

\* add_turn with the escalation override applied to customer turns only
add_turn_override_customer(s, speaker, text, ts) ==
    LET turn == Turn(speaker, text, ts, <<>>)
        role == IF speaker = CUSTOMER
                THEN (IF s.escalated THEN HUMAN_AGENT ELSE BOT)
                ELSE CUSTOMER
    IN [s EXCEPT !.turns = Append(s.turns, turn), !.active_role = role]

\* add_turn making the speaker itself the active role unless escalated
add_turn_role_is_speaker(s, speaker, text, ts) ==
    LET turn == Turn(speaker, text, ts, <<>>)
        role == IF s.escalated THEN HUMAN_AGENT ELSE speaker
    IN [s EXCEPT !.turns = Append(s.turns, turn), !.active_role = role]

\* add_turn forgetting the issue summary
add_turn_clears_summary(s, speaker, text, ts) ==
    LET turn == Turn(speaker, text, ts, <<>>)
        role == IF s.escalated THEN HUMAN_AGENT
                ELSE IF speaker = CUSTOMER THEN BOT
                ELSE CUSTOMER
    IN [s EXCEPT !.turns = Append(s.turns, turn), !.active_role = role,
                 !.issue_summary = None]

\* add_turn putting the new turn first
add_turn_prepend(s, speaker, text, ts) ==
    LET turn == Turn(speaker, text, ts, <<>>)
        role == IF s.escalated THEN HUMAN_AGENT
                ELSE IF speaker = CUSTOMER THEN BOT
                ELSE CUSTOMER
    IN [s EXCEPT !.turns = <<turn>> \o s.turns, !.active_role = role]

\* add_turn past its checks; ts is the clock value the new Turn reads
add_turn(s, speaker, text, ts) ==
    LET turn == Turn(speaker, text, ts, <<>>)
        role == IF s.escalated THEN HUMAN_AGENT
                ELSE IF speaker = CUSTOMER THEN BOT
                ELSE CUSTOMER
    IN [s EXCEPT !.turns = Append(s.turns, turn), !.active_role = role]

\* get_recent_context taking the first n turns
get_recent_context_first(s, n) ==
    LET recent == PySliceTo(s.turns, Max(0, n))
    IN Join(<<"\n">>, [i \in 1..Len(recent) |-> TurnStr(recent[i])])

get_recent_context(s, n) ==
    LET recent == PySliceFrom(s.turns, 0 - Max(0, n))
    IN Join(<<"\n">>, [i \in 1..Len(recent) |-> TurnStr(recent[i])])

update_issue_summary_error(summary) ==
    IF summary.type = "NoneType" THEN "TypeError" ELSE "none"

update_issue_summary(s, summary) ==
    [s EXCEPT !.issue_summary = [type |-> "str", val |-> Strip(summary.val)]]

\* mark_escalated making the human agent active without setting the flag
mark_escalated_role_only(s) ==
    [s EXCEPT !.active_role = HUMAN_AGENT]

\* mark_escalated setting the flag only
mark_escalated_flag_only(s) ==
    [s EXCEPT !.escalated = TRUE]

mark_escalated(s) ==
    [s EXCEPT !.escalated = TRUE, !.active_role = HUMAN_AGENT]

\* hand_back_to_bot clearing the flag only
hand_back_to_bot_flag_only(s) ==
    [s EXCEPT !.escalated = FALSE]

hand_back_to_bot(s) ==
    [s EXCEPT !.escalated = FALSE, !.active_role = BOT]

----------------------------------------------------------------------------
(* FAQ retrieval: simple_faq_rag.py *)

\* str.splitlines(), for texts whose only line boundary is "\n"
RECURSIVE SplitLinesFrom(_, _)
SplitLinesFrom(text, cur) ==
    IF text = <<>> THEN (IF cur = <<>> THEN <<>> ELSE <<cur>>)
    ELSE IF Head(text) = "\n" THEN <<cur>> \o SplitLinesFrom(Tail(text), <<>>)
    ELSE SplitLinesFrom(Tail(text), Append(cur, Head(text)))

SplitLines(text) == SplitLinesFrom(text, <<>>)

\* "\n".join(current).strip(), the chunk closed by a blank line, a heading
\* or the end of the text
Flush(current) == Strip(Join(<<"\n">>, current))

\* the loop body where a heading discards the chunk in progress
ChunkLineHeadingDrops(st, line) ==
    LET s == Strip(line)
    IN IF s = <<>>
       THEN IF st.current # <<>>
            THEN [chunks |-> Append(st.chunks, Flush(st.current)), current |-> <<>>]
            ELSE st
       ELSE IF Head(s) = "#"
            THEN [chunks |-> st.chunks,
                  current |-> << Strip(LStrip(s, {"#", " "})) >>]
            ELSE [st EXCEPT !.current = Append(st.current, s)]

\* the loop body taking a blank line for nothing: it does not end the chunk
ChunkLineBlankIgnored(st, line) ==
    LET s == Strip(line)
    IN IF s = <<>> THEN st
       ELSE IF Head(s) = "#"
            THEN [chunks |-> IF st.current # <<>>
                             THEN Append(st.chunks, Flush(st.current))
                             ELSE st.chunks,
                  current |-> << Strip(LStrip(s, {"#", " "})) >>]
            ELSE [st EXCEPT !.current = Append(st.current, s)]

\* one iteration of the loop of chunk_faq over the lines
ChunkLine(st, line) ==
    LET s == Strip(line)
    IN IF s = <<>>
       THEN IF st.current # <<>>
            THEN [chunks |-> Append(st.chunks, Flush(st.current)), current |-> <<>>]
            ELSE st
       ELSE IF Head(s) = "#"
            THEN [chunks |-> IF st.current # <<>>
                             THEN Append(st.chunks, Flush(st.current))
                             ELSE st.chunks,
                  current |-> << Strip(LStrip(s, {"#", " "})) >>]
            ELSE [st EXCEPT !.current = Append(st.current, s)]

RECURSIVE ChunkLoop(_, _)
ChunkLoop(st, lines) ==
    IF lines = <<>> THEN st ELSE ChunkLoop(ChunkLine(st, Head(lines)), Tail(lines))

\* the chunks of chunk_faq before the size filter
chunk_candidates(text) ==
    LET st == ChunkLoop([chunks |-> <<>>, current |-> <<>>], SplitLines(text))
    IN IF st.current # <<>> THEN Append(st.chunks, Flush(st.current)) ELSE st.chunks

\* the size filter keeping the chunks of 10 characters
RECURSIVE FilterTinyInclusive(_)
FilterTinyInclusive(chunks) ==
    IF chunks = <<>> THEN <<>>
    ELSE IF Len(Head(chunks)) >= 10
         THEN <<Head(chunks)>> \o FilterTinyInclusive(Tail(chunks))
    ELSE FilterTinyInclusive(Tail(chunks))

\* [c for c in chunks if len(c) > 10]
RECURSIVE FilterTiny(_)
FilterTiny(chunks) ==
    IF chunks = <<>> THEN <<>>
    ELSE IF Len(Head(chunks)) > 10 THEN <<Head(chunks)>> \o FilterTiny(Tail(chunks))
    ELSE FilterTiny(Tail(chunks))

\* chunk_faq without the size filter
chunk_faq_unfiltered(text) == chunk_candidates(text)

chunk_faq(text) == FilterTiny(chunk_candidates(text))

\* The sentence embedding of a text.  The embedding model is a fixed function
\* of the text; here the numbers of occurrences of two letters.
RECURSIVE Count(_, _)
Count(text, c) ==
    IF text = <<>> THEN 0
    ELSE (IF Head(text) = c THEN 1 ELSE 0) + Count(Tail(text), c)

Embed(text) == << Count(text, "n"), Count(text, "e") >>

\* _cosine_sim, as the exact fraction sign(a.b) * (a.b)^2 / (|a|^2 * |b|^2)
\* whose order is the order of the cosines; 0/1 when a norm is zero
Dot(a, b) == a[1] * b[1] + a[2] * b[2]

cosine_sim(a, b) ==
    LET dot == Dot(a, b)
        den == Dot(a, a) * Dot(b, b)
    IN IF den = 0 THEN [num |-> 0, den |-> 1]
       ELSE [num |-> (IF dot < 0 THEN 0 - dot * dot ELSE dot * dot), den |-> den]

ScoreGreater(x, y) == x.num * y.den > y.num * x.den

\* scored.sort(key=lambda x: x[0], reverse=True): stable, descending
RECURSIVE InsertScored(_, _)
InsertScored(sorted, e) ==
    IF sorted = <<>> THEN <<e>>
    ELSE IF ScoreGreater(e[1], Head(sorted)[1]) THEN <<e>> \o sorted
    ELSE <<Head(sorted)>> \o InsertScored(Tail(sorted), e)

\* the sort placing a chunk before the chunks of equal score
RECURSIVE InsertScoredFront(_, _)
InsertScoredFront(sorted, e) ==
    IF sorted = <<>> THEN <<e>>
    ELSE IF ~ScoreGreater(Head(sorted)[1], e[1]) THEN <<e>> \o sorted
    ELSE <<Head(sorted)>> \o InsertScoredFront(Tail(sorted), e)

RECURSIVE SortScoredUnstable(_)
SortScoredUnstable(scored) ==
    IF scored = <<>> THEN <<>>
    ELSE InsertScoredFront(SortScoredUnstable(SubSeq(scored, 1, Len(scored) - 1)),
                           scored[Len(scored)])

RECURSIVE SortScored(_)
SortScored(scored) ==
    IF scored = <<>> THEN <<>>
    ELSE InsertScored(SortScored(SubSeq(scored, 1, Len(scored) - 1)), scored[Len(scored)])

\* The module's globals and the outcome of the call in progress.  err names
\* the exception and where it is raised: "OSError" by open() in
\* load_faq_markdown, "RuntimeError" by the import and "ModelLoadError" by the
\* constructor in _ensure_model, "BuildEncodeError" by model.encode in
\* build_faq_index, "QueryEncodeError" by model.encode in retrieve_faq_chunks.
Rag == [VECTOR_DB |-> VECTOR_DB, MODEL |-> MODEL, LOADED_FAQ_TEXT |-> LOADED_FAQ_TEXT,
        loadCalls |-> loadCalls, buildCalls |-> buildCalls,
        ret |-> <<>>, err |-> "none"]

\* load_faq_markdown: the text of the file in ret, or the error of open()
load_faq_markdown(m, file, env) ==
    LET m1 == [m EXCEPT !.loadCalls = @ + 1]
    IN IF env.file_ok THEN [m1 EXCEPT !.ret = file] ELSE [m1 EXCEPT !.err = "OSError"]

ensure_model(m, env) ==
    IF m.MODEL # "None" THEN m
    ELSE IF ~env.import_ok THEN [m EXCEPT !.err = "RuntimeError"]
    ELSE IF ~env.model_ok THEN [m EXCEPT !.err = "ModelLoadError"]
    ELSE [m EXCEPT !.MODEL = "all-MiniLM-L6-v2"]

\* build_faq_index storing the chunks before their embeddings are computed
build_faq_index_partial(m, chunks, env) ==
    LET m1 == ensure_model([m EXCEPT !.buildCalls = @ + 1], env)
    IN IF m1.err # "none" THEN m1
       ELSE IF ~env.encode_ok
            THEN [m1 EXCEPT !.err = "BuildEncodeError",
                            !.VECTOR_DB = [i \in 1..Len(chunks) |-> <<chunks[i], <<>>>>]]
       ELSE [m1 EXCEPT !.VECTOR_DB =
                [i \in 1..Len(chunks) |-> <<chunks[i], Embed(chunks[i])>>]]

build_faq_index(m, chunks, env) ==
    LET m1 == ensure_model([m EXCEPT !.buildCalls = @ + 1], env)
    IN IF m1.err # "none" THEN m1
       ELSE IF ~env.encode_ok THEN [m1 EXCEPT !.err = "BuildEncodeError"]
       ELSE [m1 EXCEPT !.VECTOR_DB =
                [i \in 1..Len(chunks) |-> <<chunks[i], Embed(chunks[i])>>]]

\* retrieve_faq_chunks loading the model before it looks at the index
retrieve_faq_chunks_model_first(m, query, k, env) ==
    LET m1 == ensure_model(m, env)
    IN IF m1.err # "none" THEN m1
       ELSE IF m1.VECTOR_DB = <<>> THEN [m1 EXCEPT !.ret = <<>>]
       ELSE IF ~env.qencode_ok THEN [m1 EXCEPT !.err = "QueryEncodeError"]
       ELSE LET q_vec == Embed(query)
                scored == [i \in 1..Len(m1.VECTOR_DB) |->
                              <<cosine_sim(q_vec, m1.VECTOR_DB[i][2]),
                                m1.VECTOR_DB[i][1]>>]
                top == PySliceTo(SortScored(scored), k)
            IN [m1 EXCEPT !.ret = [i \in 1..Len(top) |-> top[i][2]]]

retrieve_faq_chunks(m, query, k, env) ==
    IF m.VECTOR_DB = <<>> THEN [m EXCEPT !.ret = <<>>]
    ELSE LET m1 == ensure_model(m, env)
         IN IF m1.err # "none" THEN m1
            ELSE IF ~env.qencode_ok THEN [m1 EXCEPT !.err = "QueryEncodeError"]
            ELSE LET q_vec == Embed(query)
                     scored == [i \in 1..Len(m1.VECTOR_DB) |->
                                   <<cosine_sim(q_vec, m1.VECTOR_DB[i][2]),
                                     m1.VECTOR_DB[i][1]>>]
                     top == PySliceTo(SortScored(scored), k)
                 IN [m1 EXCEPT !.ret = [i \in 1..Len(top) |-> top[i][2]]]

\* get_rag_context joining the texts with a single line break
get_rag_context_one_newline(m, file, question, k, env) ==
    LET m1 == IF m.VECTOR_DB = <<>> /\ m.LOADED_FAQ_TEXT = None
              THEN LET l == load_faq_markdown(m, file, env)
                   IN IF l.err # "none" THEN l
                      ELSE [l EXCEPT !.LOADED_FAQ_TEXT = [type |-> "str", val |-> l.ret],
                                     !.ret = <<>>]
              ELSE m
        m2 == IF m1.err = "none" /\ m1.VECTOR_DB = <<>>
              THEN build_faq_index(m1, chunk_faq(m1.LOADED_FAQ_TEXT.val), env)
              ELSE m1
        m3 == IF m2.err = "none" THEN retrieve_faq_chunks(m2, question, k, env) ELSE m2
    IN IF m3.err # "none" THEN m3
       ELSE [m3 EXCEPT !.ret = Join(<<"\n">>, m3.ret)]

get_rag_context(m, file, question, k, env) ==
    LET m1 == IF m.VECTOR_DB = <<>> /\ m.LOADED_FAQ_TEXT = None
              THEN LET l == load_faq_markdown(m, file, env)
                   IN IF l.err # "none" THEN l
                      ELSE [l EXCEPT !.LOADED_FAQ_TEXT = [type |-> "str", val |-> l.ret],
                                     !.ret = <<>>]
              ELSE m
        m2 == IF m1.err = "none" /\ m1.VECTOR_DB = <<>>
              THEN build_faq_index(m1, chunk_faq(m1.LOADED_FAQ_TEXT.val), env)
              ELSE m1
        m3 == IF m2.err = "none" THEN retrieve_faq_chunks(m2, question, k, env) ELSE m2
    IN IF m3.err # "none" THEN m3
       ELSE [m3 EXCEPT !.ret = Join(<<"\n", "\n">>, m3.ret)]

----------------------------------------------------------------------------
(* Actions *)

\* the history of the call: the fields the session has when it is made
Called == pre' = [active_role |-> active_role, escalated |-> escalated]

SetSession(s) ==
    /\ session_id' = s.session_id
    /\ turns' = s.turns
    /\ active_role' = s.active_role
    /\ issue_summary' = s.issue_summary
    /\ escalated' = s.escalated
    /\ resolved' = s.resolved

\* a Session whose active_role defaults to the customer
SessionInitCustomerFirst ==
    /\ turns = <<>>
    /\ active_role = CUSTOMER
    /\ issue_summary = None
    /\ escalated = FALSE
    /\ resolved = FALSE
    /\ now = 0
    /\ engaged = FALSE
    /\ pre = [active_role |-> CUSTOMER, escalated |-> FALSE]
    /\ lastOp = "new"
    /\ lastArg = NoArg
    /\ lastRet = None
    /\ lastErr = "none"

\* Session(session_id=...): the field defaults of the dataclass
SessionInit ==
    /\ turns = <<>>
    /\ active_role = BOT
    /\ issue_summary = None
    /\ escalated = FALSE
    /\ resolved = FALSE
    /\ now = 0
    /\ engaged = FALSE
    /\ pre = [active_role |-> BOT, escalated |-> FALSE]
    /\ lastOp = "new"
    /\ lastArg = NoArg
    /\ lastRet = None
    /\ lastErr = "none"

\* the globals of simple_faq_rag when the module is imported
RagInit ==
    /\ VECTOR_DB = <<>>
    /\ MODEL = "None"
    /\ LOADED_FAQ_TEXT = None
    /\ loadCalls = 0
    /\ buildCalls = 0
    /\ ctxReturned = FALSE

\* no entry point is running: the operations are called directly
NoLoop ==
    /\ app = "none"
    /\ pc = "idle"
    /\ sent = <<>>
    /\ genCalls = 0
    /\ humanMode = FALSE
    /\ branch = "none"

Init ==
    /\ session_id = "s1"
    /\ SessionInit
    /\ RagInit
    /\ NoLoop
    /\ faq_file = DocFaq

InitRag ==
    /\ session_id = "s1"
    /\ SessionInit
    /\ RagInit
    /\ NoLoop
    /\ faq_file \in Docs

\* session.add_turn(speaker, text) with arguments of the right types
AddTurn ==
    \E speaker \in SpeakerArgs, text \in TextArgs, d \in {0, 1} :
        /\ add_turn_error(speaker, text) = "none"
        /\ Len(turns) < MaxTurns
        /\ now + d <= MaxClock
        /\ now' = now + d
        /\ SetSession(add_turn(Session, speaker.val, text.val, now + d))
        /\ Called
        /\ lastOp' = "add_turn"
        /\ lastArg' = [speaker |-> speaker, text |-> text]
        /\ lastRet' = Turn(speaker.val, text.val, now + d, <<>>)
        /\ lastErr' = "none"
        /\ UNCHANGED <<engaged, faq_file, ragVars, ctxReturned, loopVars>>

\* session.add_turn(speaker, text) with an argument of the wrong type
AddTurnRejected ==
    \E speaker \in SpeakerArgs, text \in TextArgs :
        /\ add_turn_error(speaker, text) # "none"
        /\ Called
        /\ lastOp' = "add_turn"
        /\ lastArg' = [speaker |-> speaker, text |-> text]
        /\ lastRet' = None
        /\ lastErr' = add_turn_error(speaker, text)
        /\ UNCHANGED <<sessionVars, now, engaged, faq_file, ragVars, ctxReturned, loopVars>>

GetRecentContext ==
    \E n \in Ns :
        /\ Called
        /\ lastOp' = "get_recent_context"
        /\ lastArg' = [n |-> n]
        /\ lastRet' = get_recent_context(Session, n)
        /\ lastErr' = "none"
        /\ UNCHANGED <<sessionVars, now, engaged, faq_file, ragVars, ctxReturned, loopVars>>

UpdateIssueSummary ==
    \E summary \in SummaryArgs :
        /\ Called
        /\ lastOp' = "update_issue_summary"
        /\ lastArg' = [summary |-> summary]
        /\ lastRet' = None
        /\ lastErr' = update_issue_summary_error(summary)
        /\ IF update_issue_summary_error(summary) = "none"
           THEN SetSession(update_issue_summary(Session, summary))
           ELSE UNCHANGED sessionVars
        /\ UNCHANGED <<now, engaged, faq_file, ragVars, ctxReturned, loopVars>>

MarkEscalated ==
    /\ SetSession(mark_escalated(Session))
    /\ engaged' = TRUE
    /\ Called
    /\ lastOp' = "mark_escalated"
    /\ lastArg' = NoArg
    /\ lastRet' = None
    /\ lastErr' = "none"
    /\ UNCHANGED <<now, faq_file, ragVars, ctxReturned, loopVars>>

HandBackToBot ==
    /\ SetSession(hand_back_to_bot(Session))
    /\ engaged' = FALSE
    /\ Called
    /\ lastOp' = "hand_back_to_bot"
    /\ lastArg' = NoArg
    /\ lastRet' = None
    /\ lastErr' = "none"
    /\ UNCHANGED <<now, faq_file, ragVars, ctxReturned, loopVars>>

Next ==
    \/ AddTurn
    \/ AddTurnRejected
    \/ GetRecentContext
    \/ UpdateIssueSummary
    \/ MarkEscalated
    \/ HandBackToBot

Spec == Init /\ [][Next]_vars

\* get_rag_context(question, k), called any number of times in one process
GetRagContext ==
    \E question \in Queries, k \in Ks, env \in Envs :
        \E r \in {get_rag_context(Rag, faq_file, question, k, env)} :
           /\ r.loadCalls <= MaxCalls
           /\ r.buildCalls <= MaxCalls
           /\ VECTOR_DB' = r.VECTOR_DB
           /\ MODEL' = r.MODEL
           /\ LOADED_FAQ_TEXT' = r.LOADED_FAQ_TEXT
           /\ loadCalls' = r.loadCalls
           /\ buildCalls' = r.buildCalls
           /\ ctxReturned' = (ctxReturned \/ r.err = "none")
           /\ lastOp' = "get_rag_context"
           /\ lastArg' = [question |-> question, k |-> k]
           /\ lastRet' = r.ret
           /\ lastErr' = r.err
           /\ UNCHANGED <<sessionVars, now, engaged, pre, faq_file, loopVars>>

NextRag == GetRagContext

SpecRag == InitRag /\ [][NextRag]_vars

\* build_faq_index(chunks), called directly
BuildFaqIndex ==
    \E chunks \in ChunkLists, env \in Envs :
        \E r \in {build_faq_index(Rag, chunks, env)} :
           /\ r.buildCalls <= MaxCalls
           /\ VECTOR_DB' = r.VECTOR_DB
           /\ MODEL' = r.MODEL
           /\ buildCalls' = r.buildCalls
           /\ lastOp' = "build_faq_index"
           /\ lastArg' = [chunks |-> chunks]
           /\ lastRet' = None
           /\ lastErr' = r.err
           /\ UNCHANGED <<sessionVars, now, engaged, pre, faq_file,
                          LOADED_FAQ_TEXT, loadCalls, ctxReturned, loopVars>>

\* retrieve_faq_chunks(query, k), called directly
RetrieveFaqChunks ==
    \E query \in Queries, k \in Ks, env \in Envs :
        \E r \in {retrieve_faq_chunks(Rag, query, k, env)} :
           /\ VECTOR_DB' = r.VECTOR_DB
           /\ MODEL' = r.MODEL
           /\ lastOp' = "retrieve_faq_chunks"
           /\ lastArg' = [query |-> query, k |-> k,
                          model_available |-> (env.import_ok /\ env.model_ok)]
           /\ lastRet' = r.ret
           /\ lastErr' = r.err
           /\ UNCHANGED <<sessionVars, now, engaged, pre, faq_file,
                          LOADED_FAQ_TEXT, loadCalls, buildCalls, ctxReturned, loopVars>>

NextRetrieve ==
    \/ BuildFaqIndex
    \/ RetrieveFaqChunks

SpecRetrieve == Init /\ [][NextRetrieve]_vars

\* a text is about to be given to chunk_faq
InitChunk ==
    /\ session_id = "s1"
    /\ turns = <<>>
    /\ active_role = BOT
    /\ issue_summary = None
    /\ escalated = FALSE
    /\ resolved = FALSE
    /\ now = 0
    /\ engaged = FALSE
    /\ pre = [active_role |-> BOT, escalated |-> FALSE]
    /\ lastOp = "input"
    /\ lastArg \in {[text |-> text] : text \in ChunkDocs}
    /\ lastRet = None
    /\ lastErr = "none"
    /\ RagInit
    /\ NoLoop
    /\ faq_file = DocFaq

\* chunk_faq(text), called directly
ChunkFaq ==
    /\ lastOp = "input"
    /\ lastOp' = "chunk_faq"
    /\ lastRet' = chunk_faq(lastArg.text)
    /\ lastErr' = "none"
    /\ UNCHANGED <<sessionVars, now, engaged, pre, lastArg, faq_file, ragVars, ctxReturned, loopVars>>

NextChunk == ChunkFaq

SpecChunk == InitChunk /\ [][NextChunk]_vars

----------------------------------------------------------------------------
(* The orchestration paths: the two conversation loops, the voice test,    *)
(* the scenario tests and the evaluation script                            *)

CONSOLE == "console_app.main"
DEMO == "io_loop.demo_turn_based_audio_session"
VOICE == "io_loop.run_full_voice_test"
SCENARIOS == "io_loop.run_scenario_tests"
EVAL == "eval_rag_roundtrip.run_test_case"
Apps == {CONSOLE, DEMO, VOICE, SCENARIOS, EVAL}

\* what input() gives: a line, or the exception it raises
Line(t) == [kind |-> "line", text |-> t]
EOFError == [kind |-> "EOFError", text |-> <<>>]
KeyboardInterrupt == [kind |-> "KeyboardInterrupt", text |-> <<>>]

CmdHuman == <<"/", "h", "u", "m", "a", "n">>
CmdBot == <<"/", "b", "o", "t">>
CmdQuit == <<"/", "q", "u", "i", "t">>

\* the lines typed at the customer prompt: empty and blank lines, the three
\* commands, and two questions
CustomerLines == { <<>>, <<" ">>, CmdHuman, CmdBot, CmdQuit \o <<" ">>,
                   <<" ", "p", "l", "a", "n">>, <<"f", "e", "e">> }
Inputs == {Line(t) : t \in CustomerLines} \cup {EOFError, KeyboardInterrupt}

\* what is typed at the human agent's prompt
HumanInputs == {Line(<<"o", "k", " ">>), Line(CmdQuit), EOFError, KeyboardInterrupt}

\* the texts the speech recogniser, the scenarios file and TEST_CASES give
Questions == { <<"p", "l", "a", "n">>, <<"f", "e", "e">> }

\* What the generation collaborator does with one request: it answers with
\* a content, or it fails with an error of the given message.
Replies == { <<"o", "k", ".">>, <<"'", "a", ".", " ", "b", "'">> }
GenOutcomes == {[ok |-> TRUE, content |-> r, error |-> <<>>] : r \in Replies}
                   \cup {[ok |-> FALSE, content |-> <<>>, error |-> <<"refused">>]}

\* the fallback of generate_bot_reply, before the exception's message
FallbackPrefix == <<"Sorry, I had an issue generating a response: ">>

\* llm_client.generate_bot_reply: the content, or the fallback string
generate_bot_reply(gen) ==
    IF gen.ok THEN gen.content ELSE FallbackPrefix \o gen.error

\* ollama_client.generate_with_ollama: the content, or the exception of
\* requests.post / raise_for_status
generate_with_ollama(gen) ==
    IF gen.ok THEN [ret |-> gen.content, err |-> "none"]
    ELSE [ret |-> <<>>, err |-> "RequestException"]

\* the history list built from session.turns
history(ts) ==
    [i \in 1..Len(ts) |->
        [role |-> IF ts[i].speaker = CUSTOMER THEN "user" ELSE "assistant",
         content |-> ts[i].text]]

\* The augmented message as its sections, each a heading line and a body.
DocsContext(rag_context) == [head |-> "Docs context:", body |-> rag_context]
Instructions ==
    [head |-> "Instructions:",
     body |-> <<"- Answer ONLY using the Docs context above.",
                "- If the Docs context is missing information, say that explicitly",
                "  and suggest the agent escalate or check with a supervisor.">>]
CustomerQuestion(text) == [head |-> "Customer question:", body |-> text]

\* console_app.main's augmented_user_message
augmented_user_message(rag_context, customer_text) ==
    << DocsContext(rag_context), CustomerQuestion(customer_text) >>

\* augmented_message of the io_loop functions, and run_test_case's
augmented_message(rag_context, customer_text) ==
    << DocsContext(rag_context), Instructions, CustomerQuestion(customer_text) >>

GenCall(h, msg, gen) == [history |-> h, user_message |-> msg, outcome |-> gen]

\* re.split(r'(?<=[.!?])\s+', text)[0]
first_part(text) ==
    LET cut == {i \in 2..Len(text) :
                   text[i] \in Whitespace /\ text[i - 1] \in {".", "!", "?"}}
    IN IF cut = {} THEN text
       ELSE SubSeq(text, 1, (CHOOSE i \in cut : \A j \in cut : i <= j) - 1)

\* run_full_voice_test: the reply trimmed to its first sentence
voice_reply(reply) == first_part(Strip(reply))

\* run_scenario_tests: surrounding quotes stripped, then the first non-blank
\* part, stripped
scenario_reply(reply) ==
    LET unquoted == RStrip(LStrip(RStrip(LStrip(Strip(reply), {"\""}), {"\""}), {"'"}), {"'"})
    IN IF Strip(unquoted) = <<>> THEN unquoted ELSE Strip(first_part(unquoted))

\* Session(session_id=str(uuid.uuid4()))
NewSession ==
    [session_id |-> "s1", turns |-> <<>>, active_role |-> BOT,
     issue_summary |-> None, escalated |-> FALSE, resolved |-> FALSE]

SetRag(r) ==
    /\ VECTOR_DB' = r.VECTOR_DB
    /\ MODEL' = r.MODEL
    /\ LOADED_FAQ_TEXT' = r.LOADED_FAQ_TEXT
    /\ loadCalls' = r.loadCalls
    /\ buildCalls' = r.buildCalls
    /\ ctxReturned' = (ctxReturned \/ r.err = "none")

\* get_rag_context is not called
NoRag == UNCHANGED <<ragVars, ctxReturned>>

\* where one step of a path leaves the session, the clock and the path
LoopSet(s, nw, p, snt, gc, br, hm, ret, err) ==
    /\ SetSession(s)
    /\ now' = nw
    /\ pc' = p
    /\ sent' = snt
    /\ genCalls' = gc
    /\ branch' = br
    /\ humanMode' = hm
    /\ lastRet' = ret
    /\ lastErr' = err

\* an entry point has been started: its Session is new, the FAQ module is
\* imported and nothing is indexed
InitLoop ==
    /\ session_id = "s1"
    /\ SessionInit
    /\ RagInit
    /\ faq_file = DocFaq
    /\ app \in Apps
    /\ pc = "running"
    /\ sent = <<>>
    /\ genCalls = 0
    /\ humanMode = FALSE
    /\ branch = "none"

\* console_app.main: one iteration of the while loop, up to its continue or
\* break, or to the exception that leaves it; the final session dump when
\* the loop is left by break or KeyboardInterrupt
ConsoleStep ==
    /\ app = CONSOLE
    /\ pc = "running"
    /\ \E inp \in Inputs :
        LET raw == Strip(inp.text) IN
        /\ lastOp' = CONSOLE
        /\ lastArg' = [input |-> inp]
        /\ Called
        /\ UNCHANGED <<engaged, faq_file, app>>
        /\ IF inp.kind # "line" \/ raw = CmdQuit
           THEN /\ LoopSet(Session, now, "exited", sent, genCalls, "none", humanMode,
                           get_recent_context(Session, 50), "none")
                /\ NoRag
           ELSE IF raw = <<>>
           THEN /\ LoopSet(Session, now, "running", sent, genCalls, "none", humanMode,
                           None, "none")
                /\ NoRag
           ELSE IF raw = CmdHuman
           THEN /\ LoopSet([Session EXCEPT !.active_role = HUMAN_AGENT], now, "running",
                           sent, genCalls, "none", TRUE, None, "none")
                /\ NoRag
           ELSE IF raw = CmdBot
           THEN /\ LoopSet([Session EXCEPT !.active_role = BOT], now, "running",
                           sent, genCalls, "none", FALSE, None, "none")
                /\ NoRag
           ELSE /\ Len(turns) + 2 <= MaxLoopTurns
                /\ \E d1 \in {0, 1} :
                    LET t1 == now + d1
                        s1 == add_turn(Session, CUSTOMER, raw, t1)
                    IN /\ t1 <= MaxClock
                       /\ IF s1.active_role = BOT
                          THEN \E env \in Envs :
                               \E r \in {get_rag_context(Rag, faq_file, raw, 3, env)} :
                                  /\ SetRag(r)
                                  /\ IF r.err # "none"
                                     THEN LoopSet(s1, t1, "raised", sent, genCalls, "bot",
                                                  humanMode, None, r.err)
                                     ELSE \E gen \in GenOutcomes, d2 \in {0, 1} :
                                          LET reply_text == generate_bot_reply(gen)
                                              call == GenCall(history(s1.turns),
                                                         augmented_user_message(r.ret, raw),
                                                         gen)
                                          IN /\ t1 + d2 <= MaxClock
                                             /\ LoopSet(add_turn(s1, BOT, reply_text, t1 + d2),
                                                        t1 + d2, "running", <<call>>,
                                                        genCalls + 1, "bot", humanMode,
                                                        reply_text, "none")
                          ELSE IF s1.active_role = HUMAN_AGENT
                          THEN /\ NoRag
                               /\ \E h \in HumanInputs, d2 \in {0, 1} :
                                    /\ t1 + d2 <= MaxClock
                                    /\ IF h.kind = "EOFError"
                                       THEN LoopSet(s1, t1, "raised", sent, genCalls,
                                                    "human", humanMode, None, "EOFError")
                                       ELSE IF h.kind = "KeyboardInterrupt"
                                       THEN LoopSet(s1, t1, "exited", sent, genCalls,
                                                    "human", humanMode,
                                                    get_recent_context(s1, 50), "none")
                                       ELSE LoopSet(add_turn(s1, HUMAN_AGENT, Strip(h.text),
                                                             t1 + d2),
                                                    t1 + d2, "running", sent, genCalls,
                                                    "human", humanMode, Strip(h.text), "none")
                          ELSE /\ NoRag
                               /\ LoopSet(s1, t1, "running", sent, genCalls, "no_responder",
                                          humanMode, None, "none")

\* io_loop.demo_turn_based_audio_session: one iteration of the while loop
DemoStep ==
    /\ app = DEMO
    /\ pc = "running"
    /\ \E inp \in Inputs :
        LET raw == Strip(inp.text) IN
        /\ lastOp' = DEMO
        /\ lastArg' = [input |-> inp]
        /\ Called
        /\ UNCHANGED <<engaged, faq_file, app>>
        /\ IF inp.kind # "line" \/ raw = CmdQuit
           THEN /\ LoopSet(Session, now, "exited", sent, genCalls, "none", humanMode,
                           None, "none")
                /\ NoRag
           ELSE IF raw = <<>>
           THEN /\ LoopSet(Session, now, "running", sent, genCalls, "none", humanMode,
                           None, "none")
                /\ NoRag
           ELSE /\ Len(turns) + 2 <= MaxLoopTurns
                /\ \E d1 \in {0, 1} :
                    LET t1 == now + d1
                        s1 == add_turn(Session, CUSTOMER, raw, t1)
                    IN /\ t1 <= MaxClock
                       /\ IF s1.active_role = BOT
                          THEN \E env \in Envs :
                               \E r \in {get_rag_context(Rag, faq_file, raw, 3, env)} :
                                  /\ SetRag(r)
                                  /\ IF r.err # "none"
                                     THEN LoopSet(s1, t1, "raised", sent, genCalls, "bot",
                                                  humanMode, None, r.err)
                                     ELSE \E gen \in GenOutcomes, d2 \in {0, 1} :
                                          LET g == generate_with_ollama(gen)
                                              call == GenCall(history(s1.turns),
                                                         augmented_message(r.ret, raw), gen)
                                          IN /\ t1 + d2 <= MaxClock
                                             /\ IF g.err # "none"
                                                THEN LoopSet(s1, t1, "raised", <<call>>,
                                                             genCalls + 1, "bot", humanMode,
                                                             None, g.err)
                                                ELSE LoopSet(add_turn(s1, BOT, g.ret, t1 + d2),
                                                             t1 + d2, "running", <<call>>,
                                                             genCalls + 1, "bot", humanMode,
                                                             g.ret, "none")
                          ELSE IF s1.active_role = HUMAN_AGENT
                          THEN /\ NoRag
                               /\ \E h \in HumanInputs, d2 \in {0, 1} :
                                    /\ t1 + d2 <= MaxClock
                                    /\ IF h.kind = "EOFError"
                                       THEN LoopSet(s1, t1, "running", sent, genCalls,
                                                    "human", humanMode, None, "none")
                                       ELSE IF h.kind = "KeyboardInterrupt"
                                               \/ Strip(h.text) = CmdQuit
                                       THEN LoopSet(s1, t1, "exited", sent, genCalls,
                                                    "human", humanMode, None, "none")
                                       ELSE LoopSet(add_turn(s1, HUMAN_AGENT, Strip(h.text),
                                                             t1 + d2),
                                                    t1 + d2, "running", sent, genCalls,
                                                    "human", humanMode, Strip(h.text), "none")
                          ELSE /\ NoRag
                               /\ LoopSet(s1, t1, "running", sent, genCalls, "no_responder",
                                          humanMode, None, "none")

\* io_loop.run_full_voice_test: the whole function.  stage is where the
\* recording pipeline stops: the imports, the recording, the recogniser, or
\* nowhere.  Every exception past the imports is caught and printed.
VoiceTest ==
    /\ app = VOICE
    /\ pc = "running"
    /\ \E stage \in {"import", "record", "asr", "ok"} :
        /\ lastOp' = VOICE
        /\ Called
        /\ UNCHANGED <<engaged, faq_file, app>>
        /\ IF stage # "ok"
           THEN /\ lastArg' = [stage |-> stage, asr_text |-> <<>>]
                /\ LoopSet(Session, now, "exited", sent, genCalls, "none", humanMode,
                           None, "none")
                /\ NoRag
           ELSE \E asr_text \in Questions \cup {<<>>}, d1 \in {0, 1}, env \in Envs :
                LET t1 == now + d1
                    s1 == add_turn(NewSession, CUSTOMER, asr_text, t1)
                IN /\ t1 <= MaxClock
                   /\ lastArg' = [stage |-> stage, asr_text |-> asr_text]
                   /\ \E r \in {get_rag_context(Rag, faq_file, asr_text, 3, env)} :
                        /\ SetRag(r)
                        /\ IF r.err # "none"
                           THEN LoopSet(s1, t1, "exited", sent, genCalls, "bot", humanMode,
                                        None, "none")
                           ELSE \E gen \in GenOutcomes, d2 \in {0, 1} :
                                LET g == generate_with_ollama(gen)
                                    call == GenCall(history(s1.turns),
                                               augmented_message(r.ret, asr_text), gen)
                                IN /\ t1 + d2 <= MaxClock
                                   /\ IF g.err # "none"
                                      THEN LoopSet(s1, t1, "exited", <<call>>, genCalls + 1,
                                                   "bot", humanMode, None, "none")
                                      ELSE LoopSet(add_turn(s1, BOT, voice_reply(g.ret),
                                                            t1 + d2),
                                                   t1 + d2, "exited", <<call>>, genCalls + 1,
                                                   "bot", humanMode, voice_reply(g.ret),
                                                   "none")

\* io_loop.run_scenario_tests: one scenario of the file, in a Session of its
\* own, or the return when there is none left
ScenarioStep ==
    /\ app = SCENARIOS
    /\ pc = "running"
    /\ \E more \in BOOLEAN :
        /\ lastOp' = SCENARIOS
        /\ Called
        /\ UNCHANGED <<engaged, faq_file, app>>
        /\ IF ~more
           THEN /\ lastArg' = [text |-> <<>>]
                /\ LoopSet(Session, now, "exited", sent, genCalls, "none", humanMode,
                           None, "none")
                /\ NoRag
           ELSE /\ genCalls < MaxCalls
                /\ \E text \in Questions, d1 \in {0, 1}, env \in Envs :
                    LET t1 == now + d1
                        s1 == add_turn(NewSession, CUSTOMER, text, t1)
                    IN /\ t1 <= MaxClock
                       /\ lastArg' = [text |-> text]
                       /\ \E r \in {get_rag_context(Rag, faq_file, text, 3, env)} :
                            /\ SetRag(r)
                            /\ IF r.err # "none"
                               THEN LoopSet(s1, t1, "raised", sent, genCalls, "bot",
                                            humanMode, None, r.err)
                               ELSE \E gen \in GenOutcomes :
                                    LET g == generate_with_ollama(gen)
                                        call == GenCall(history(s1.turns),
                                                   augmented_message(r.ret, text), gen)
                                    IN IF g.err # "none"
                                       THEN LoopSet(s1, t1, "raised", <<call>>, genCalls + 1,
                                                    "bot", humanMode, None, g.err)
                                       ELSE LoopSet(s1, t1, "running", <<call>>, genCalls + 1,
                                                    "bot", humanMode, scenario_reply(g.ret),
                                                    "none")

\* eval_rag_roundtrip.run_test_case: one test case
RunTestCase ==
    /\ app = EVAL
    /\ pc = "running"
    /\ genCalls < MaxCalls
    /\ \E question \in Questions, env \in Envs :
        /\ lastOp' = EVAL
        /\ lastArg' = [question |-> question]
        /\ UNCHANGED <<engaged, pre, faq_file, app>>
        /\ \E r \in {get_rag_context(Rag, faq_file, question, 3, env)} :
             /\ SetRag(r)
             /\ IF r.err # "none"
                THEN LoopSet(Session, now, "raised", sent, genCalls, "none", humanMode,
                             None, r.err)
                ELSE \E gen \in GenOutcomes :
                     LET g == generate_with_ollama(gen)
                         call == GenCall(<<>>, augmented_message(r.ret, question), gen)
                     IN IF g.err # "none"
                        THEN LoopSet(Session, now, "raised", <<call>>, genCalls + 1, "none",
                                     humanMode, None, g.err)
                        ELSE LoopSet(Session, now, "running", <<call>>, genCalls + 1, "none",
                                     humanMode, g.ret, "none")

NextLoop ==
    \/ ConsoleStep
    \/ DemoStep
    \/ VoiceTest
    \/ ScenarioStep
    \/ RunTestCase

SpecLoop == InitLoop /\ [][NextLoop]_vars

----------------------------------------------------------------------------
(* Properties of the conversation state machine *)

AddTurnReturned == lastOp = "add_turn" /\ lastErr = "none"

\* C1: when add_turn is called with escalated false, active_role after the
\* call is Bot if the speaker is Customer, and Customer if the speaker is Bot
\* or HumanAgent.
C1_AddTurnNotEscalated ==
    (AddTurnReturned /\ ~pre.escalated) =>
        active_role = (IF lastArg.speaker.val = CUSTOMER THEN BOT ELSE CUSTOMER)

C1_Witness ==
    /\ AddTurnReturned
    /\ ~pre.escalated
    /\ lastArg.speaker.val = HUMAN_AGENT
    /\ pre.active_role = BOT
    /\ active_role = CUSTOMER

\* C2: when add_turn is called with escalated true, active_role after the
\* call is HumanAgent, whoever the speaker is.
C2_AddTurnEscalated ==
    (AddTurnReturned /\ pre.escalated) => active_role = HUMAN_AGENT

C2_Witness ==
    /\ AddTurnReturned
    /\ pre.escalated
    /\ lastArg.speaker.val = CUSTOMER
    /\ active_role = HUMAN_AGENT

\* C3: from a call of mark_escalated until the next call of hand_back_to_bot,
\* active_role is HumanAgent after every operation, add_turn by any speaker
\* included.
C3_EscalationPinsHuman ==
    engaged => active_role = HUMAN_AGENT

C3_Witness ==
    /\ engaged
    /\ AddTurnReturned
    /\ lastArg.speaker.val = BOT
    /\ Len(turns) = 2
    /\ turns[1].speaker = CUSTOMER
    /\ active_role = HUMAN_AGENT

\* C4: hand_back_to_bot leaves escalated false and active_role Bot in whatever
\* state it is called, and a second call right after the first changes nothing.
C4_HandBack ==
    [][lastOp' = "hand_back_to_bot" =>
          /\ escalated' = FALSE
          /\ active_role' = BOT
          /\ (lastOp = "hand_back_to_bot" => UNCHANGED sessionVars)]_vars

C4_Witness ==
    /\ lastOp = "hand_back_to_bot"
    /\ pre.escalated
    /\ pre.active_role = HUMAN_AGENT
    /\ turns # <<>>
    /\ ~escalated
    /\ active_role = BOT

\* C5: mark_escalated leaves escalated true and active_role HumanAgent in
\* whatever state it is called, and a second call right after the first
\* changes nothing.
C5_MarkEscalated ==
    [][lastOp' = "mark_escalated" =>
          /\ escalated' = TRUE
          /\ active_role' = HUMAN_AGENT
          /\ (lastOp = "mark_escalated" => UNCHANGED sessionVars)]_vars

C5_Witness ==
    /\ lastOp = "mark_escalated"
    /\ ~pre.escalated
    /\ pre.active_role = CUSTOMER
    /\ escalated
    /\ active_role = HUMAN_AGENT

\* C6: get_recent_context(n) returns the empty string for every n <= 0.
C6_NonPositiveIsEmpty ==
    (lastOp = "get_recent_context" /\ lastArg.n <= 0) => lastRet = <<>>

\* the last k turns of the session, oldest first
LastTurns(k) == [i \in 1..k |-> turns[Len(turns) - k + i]]

\* C7: for n >= 1, get_recent_context(n) is the renderings of the last
\* min(n, len(turns)) turns, oldest first, each separated from the next by one
\* line break; all the turns when n >= len(turns).
C7_RecentContext ==
    (lastOp = "get_recent_context" /\ lastArg.n >= 1) =>
        LET k == Min(lastArg.n, Len(turns))
            last == LastTurns(k)
        IN lastRet = Join(<<"\n">>, [i \in 1..k |-> TurnStr(last[i])])

C7_Witness ==
    /\ lastOp = "get_recent_context"
    /\ lastArg.n = 1
    /\ Len(turns) = 2
    /\ turns[1] # turns[2]
    /\ lastRet = TurnStr(turns[2])

\* C8: add_turn called with a speaker that is not a role, or with a text that
\* is not a string, raises TypeError and changes no field of the session.
C8_AddTurnRejects ==
    [][(lastOp' = "add_turn"
          /\ (lastArg'.speaker.type # "SpeakerRole" \/ lastArg'.text.type # "str")) =>
          /\ lastErr' = "TypeError"
          /\ UNCHANGED sessionVars]_vars

C8_Witness ==
    /\ lastOp = "add_turn"
    /\ lastArg.speaker.type = "SpeakerRole"
    /\ lastArg.text.type = "NoneType"
    /\ lastErr = "TypeError"
    /\ Len(turns) = 1
    /\ escalated

----------------------------------------------------------------------------
(* Properties of the FAQ retrieval *)

\* C9: once a get_rag_context call has returned normally, no later
\* get_rag_context call loads the document or builds the index.
C9_InitialisedOnce ==
    [][(ctxReturned /\ lastOp' = "get_rag_context") =>
          (loadCalls' = loadCalls /\ buildCalls' = buildCalls)]_vars

\* the exceptions raised while get_rag_context loads the document and builds
\* the index
InitErrors == {"OSError", "RuntimeError", "ModelLoadError", "BuildEncodeError"}

\* C10: a get_rag_context call that fails while it initialises raises the
\* error and leaves the index empty, and the next call attempts the
\* initialisation again.
C10_FailedInitRetried ==
    [][lastOp' = "get_rag_context" =>
          /\ (lastErr' \in InitErrors => VECTOR_DB' = <<>>)
          /\ ((lastOp = "get_rag_context" /\ lastErr \in InitErrors) =>
                 (loadCalls' > loadCalls \/ buildCalls' > buildCalls))]_vars

C10_Witness ==
    /\ lastOp = "get_rag_context"
    /\ lastErr = "BuildEncodeError"
    /\ buildCalls = 2
    /\ loadCalls = 1
    /\ LOADED_FAQ_TEXT # None
    /\ VECTOR_DB = <<>>

RetrieveReturned == lastOp = "retrieve_faq_chunks" /\ lastErr = "none"

\* C11: retrieve_faq_chunks on an empty index returns the empty list for every
\* query and every k and raises nothing, also when the embedding model is not
\* loaded and cannot be loaded.
C11_EmptyIndexRetrieve ==
    [][(lastOp' = "retrieve_faq_chunks" /\ VECTOR_DB = <<>>) =>
          (lastErr' = "none" /\ lastRet' = <<>>)]_vars

C11_Witness ==
    /\ lastOp = "retrieve_faq_chunks"
    /\ VECTOR_DB = <<>>
    /\ MODEL = "None"
    /\ ~lastArg.model_available
    /\ lastArg.k = 3
    /\ lastErr = "none"
    /\ lastRet = <<>>

\* the score of chunk i of the index for the query of the last call
ScoreOf(i) == cosine_sim(Embed(lastArg.query), VECTOR_DB[i][2])

\* chunk i ranks before chunk j: a higher cosine, or the same cosine and an
\* earlier place in the index
RanksBefore(i, j) ==
    \/ ScoreGreater(ScoreOf(i), ScoreOf(j))
    \/ (~ScoreGreater(ScoreOf(j), ScoreOf(i)) /\ i < j)

\* the chunk with exactly r - 1 chunks ranking before it
ChunkOfRank(r) ==
    CHOOSE i \in 1..Len(VECTOR_DB) :
        Cardinality({j \in 1..Len(VECTOR_DB) : RanksBefore(j, i)}) = r - 1

\* C12: on a non-empty index and for k >= 1, retrieve_faq_chunks returns the
\* texts of the min(k, |index|) chunks of highest cosine similarity, highest
\* first, chunks of equal similarity in index order; with the index of two
\* chunks of orthogonal unit embeddings and a query embedded as the first,
\* k = 1 returns the first chunk's text only.
C12_TopKByCosine ==
    (RetrieveReturned /\ VECTOR_DB # <<>> /\ lastArg.k >= 1) =>
        /\ Len(lastRet) = Min(lastArg.k, Len(VECTOR_DB))
        /\ \A r \in 1..Len(lastRet) : lastRet[r] = VECTOR_DB[ChunkOfRank(r)][1]
        /\ (/\ VECTOR_DB = << << <<"n">>, <<1, 0>> >>, << <<"e">>, <<0, 1>> >> >>
            /\ Embed(lastArg.query) = <<1, 0>>
            /\ lastArg.k = 1) => lastRet = << <<"n">> >>

C12_Witness ==
    /\ RetrieveReturned
    /\ Len(VECTOR_DB) = 2
    /\ VECTOR_DB[1][1] = <<"e">>
    /\ VECTOR_DB[2][1] = <<"n", "e">>
    /\ Embed(lastArg.query) = <<1, 0>>
    /\ lastArg.k = 3
    /\ lastRet = << <<"n", "e">>, <<"e">> >>

\* C19: retrieve_faq_chunks returns at most k texts for every index and every
\* integer k: none when k <= 0, min(k, |index|) when k >= 1.
C19_AtMostK ==
    RetrieveReturned =>
        Len(lastRet) = (IF lastArg.k <= 0 THEN 0 ELSE Min(lastArg.k, Len(VECTOR_DB)))

\* the elements of a sequence
Range(seq) == {seq[i] : i \in 1..Len(seq)}

\* C13: every chunk chunk_faq returns is longer than 10 characters once
\* trimmed, and no candidate chunk of 10 characters or fewer is returned.
C13_NoTinyChunk ==
    lastOp = "chunk_faq" =>
        /\ \A i \in 1..Len(lastRet) : Len(Strip(lastRet[i])) > 10
        /\ \A c \in Range(chunk_candidates(lastArg.text)) :
               Len(Strip(c)) <= 10 => c \notin Range(lastRet)

C13_Witness ==
    /\ lastOp = "chunk_faq"
    /\ chunk_candidates(lastArg.text) =
           << <<"a", "b", "c", "d">>,
              <<"P", "l", "a", "n", "s", "\n", "a", "b", "c", "d", "e">> >>
    /\ lastRet = << <<"P", "l", "a", "n", "s", "\n", "a", "b", "c", "d", "e">> >>

\* C14 as stated: chunk_faq of "# A\nfoo\nbar\n\n# B\nbaz" is the two chunks
\* "A\nfoo\nbar" and "B\nbaz", in this order.
C14_ExampleTwoChunks ==
    (lastOp = "chunk_faq" /\ lastArg.text = DocSmall) =>
        lastRet = << <<"A", "\n", "f", "o", "o", "\n", "b", "a", "r">>,
                     <<"B", "\n", "b", "a", "z">> >>

\* C14 amended: chunk_faq of "# A\nfoo\nbar\n\n# B\nbaz" is empty: the two
\* chunks "A\nfoo\nbar" (9 characters) and "B\nbaz" (5 characters) formed from
\* it are both dropped by the size filter.
C14_ExampleIsFiltered ==
    (lastOp = "chunk_faq" /\ lastArg.text = DocSmall) =>
        /\ lastRet = <<>>
        /\ Len(<<"A", "\n", "f", "o", "o", "\n", "b", "a", "r">>) = 9
        /\ Len(<<"B", "\n", "b", "a", "z">>) = 5

C14_Witness ==
    /\ lastOp = "chunk_faq"
    /\ lastArg.text = DocSmall
    /\ lastRet = <<>>

\* C18: a new Session has active_role Bot, escalated false, resolved false and
\* no turn, and after add_turn(Customer, text) as its first operation
\* active_role is Bot.
C18_NewSession ==
    /\ [](lastOp = "new" =>
             /\ active_role = BOT
             /\ escalated = FALSE
             /\ resolved = FALSE
             /\ turns = <<>>)
    /\ [][(lastOp = "new" /\ lastOp' = "add_turn" /\ lastErr' = "none"
             /\ lastArg'.speaker.val = CUSTOMER) => active_role' = BOT]_vars

C18_Witness ==
    /\ AddTurnReturned
    /\ Len(turns) = 1
    /\ turns[1].speaker = CUSTOMER
    /\ pre = [active_role |-> BOT, escalated |-> FALSE]
    /\ issue_summary = None
    /\ active_role = BOT

\* C20: a successful add_turn makes the turn log one longer, with the new
\* turn (of the given speaker and text, the one returned) last and the earlier
\* turns as they were; mark_escalated, hand_back_to_bot, get_recent_context
\* and update_issue_summary leave the turn log as it was.
C20_AppendOnly ==
    [][/\ (lastOp' = "add_turn" /\ lastErr' = "none") =>
              /\ Len(turns') = Len(turns) + 1
              /\ turns'[Len(turns')] = lastRet'
              /\ lastRet'.speaker = lastArg'.speaker.val
              /\ lastRet'.text = lastArg'.text.val
              /\ SubSeq(turns', 1, Len(turns)) = turns
       /\ lastOp' \in {"mark_escalated", "hand_back_to_bot", "get_recent_context",
                       "update_issue_summary"} => turns' = turns]_vars

C20_Witness ==
    /\ AddTurnReturned
    /\ Len(turns) = 2
    /\ turns[1] # turns[2]
    /\ turns[2] = lastRet
    /\ lastRet.speaker = BOT

\* C23: in every state reached from a new Session by add_turn,
\* mark_escalated and hand_back_to_bot (and the two operations that change
\* neither field), escalated is true exactly when active_role is HumanAgent.
C23_EscalatedIffHuman ==
    escalated <=> (active_role = HUMAN_AGENT)

C23_Witness ==
    /\ lastOp = "mark_escalated"
    /\ pre = [active_role |-> CUSTOMER, escalated |-> FALSE]
    /\ Len(turns) = 1
    /\ escalated
    /\ active_role = HUMAN_AGENT

\* C24: add_turn, whether it returns or raises, leaves escalated, resolved,
\* issue_summary and session_id as they were.
C24_AddTurnFrame ==
    [][lastOp' = "add_turn" =>
          /\ escalated' = escalated
          /\ resolved' = resolved
          /\ issue_summary' = issue_summary
          /\ session_id' = session_id]_vars

C24_Witness ==
    /\ AddTurnReturned
    /\ Len(turns) = 2
    /\ issue_summary = [type |-> "str", val |-> <<"x">>]
    /\ escalated
    /\ lastArg.speaker.val = BOT

\* what retrieve_faq_chunks returns for the arguments of the last call, on
\* the index as it is now
RetrievedNow == retrieve_faq_chunks(Rag, lastArg.question, lastArg.k, EnvOk).ret

\* C22: on a built index, get_rag_context(question, k) is the texts that
\* retrieve_faq_chunks(question, k) returns, in their rank order, joined with
\* one blank line between consecutive texts; it is the empty string exactly
\* when retrieve_faq_chunks returns no text.
C22_ContextIsJoin ==
    (lastOp = "get_rag_context" /\ lastErr = "none" /\ VECTOR_DB # <<>>) =>
        /\ lastRet = Join(<<"\n", "\n">>, RetrievedNow)
        /\ (lastRet = <<>>) <=> (RetrievedNow = <<>>)

C22_Witness ==
    /\ lastOp = "get_rag_context"
    /\ lastErr = "none"
    /\ loadCalls = 1
    /\ Len(VECTOR_DB) = 2
    /\ lastArg.k = 2
    /\ Len(RetrievedNow) = 2
    /\ RetrievedNow[1] = VECTOR_DB[2][1]
    /\ lastRet = VECTOR_DB[2][1] \o <<"\n", "\n">> \o VECTOR_DB[1][1]

----------------------------------------------------------------------------
(* Properties of the grouping of lines into chunks *)

\* the kinds of line: blank, heading (its first non-blank character is the
\* marker), body
NonBlank(ls, i) == Strip(ls[i]) # <<>>
IsHeading(ls, i) == NonBlank(ls, i) /\ Head(Strip(ls[i])) = "#"
IsBody(ls, i) == NonBlank(ls, i) /\ ~IsHeading(ls, i)

\* what a non-blank line contributes: the line stripped, a heading without
\* its marker (the leading marker characters and blanks)
Content(ls, i) ==
    IF IsHeading(ls, i) THEN Strip(LStrip(Strip(ls[i]), {"#", " "})) ELSE Strip(ls[i])

\* the lines that open a chunk: a heading, or a body line at the start of the
\* text or after a blank line
Starts(ls) ==
    {i \in 1..Len(ls) :
        NonBlank(ls, i) /\ (i = 1 \/ ~NonBlank(ls, i - 1) \/ IsHeading(ls, i))}

\* the last line of the chunk opened by line i: the body lines that follow it
EndOf(ls, i) ==
    CHOOSE j \in i..Len(ls) :
        /\ \A m \in (i + 1)..j : IsBody(ls, m)
        /\ (j = Len(ls) \/ ~IsBody(ls, j + 1))

\* the r-th opening line in document order
StartOfRank(ls, r) ==
    CHOOSE i \in Starts(ls) : Cardinality({j \in Starts(ls) : j < i}) = r - 1

\* the chunk opened by line i: its lines joined, trimmed
GroupText(ls, i) ==
    Strip(Join(<<"\n">>, [m \in 1..(EndOf(ls, i) - i + 1) |-> Content(ls, i + m - 1)]))

GroupedChunks(ls) ==
    [r \in 1..Cardinality(Starts(ls)) |-> GroupText(ls, StartOfRank(ls, r))]

\* C21: before the size filter, chunk_faq groups the lines so: a heading
\* closes the current chunk and opens one that begins with the heading's
\* text without the marker, a body line joins the current chunk, a blank
\* line closes it and opens nothing; the chunks are in document order.
C21_Grouping ==
    lastOp = "chunk_faq" =>
        chunk_candidates(lastArg.text) = GroupedChunks(SplitLines(lastArg.text))

C21_Witness ==
    /\ lastOp = "chunk_faq"
    /\ lastArg.text = Join(<<"\n">>, << <<"#", " ", "P", "l", "a", "n", "s">>,
                                        <<"a", "b", "c", "d">>,
                                        <<>>,
                                        <<" ", "a", "b", "c", "d", "e", " ">> >>)
    /\ chunk_candidates(lastArg.text) =
           << <<"P", "l", "a", "n", "s", "\n", "a", "b", "c", "d">>,
              <<"a", "b", "c", "d", "e">> >>

\* chunk.split("\n"): the lines of a candidate chunk
ChunkLines(c) == IF c = <<>> THEN << <<>> >> ELSE SplitLines(c)

\* the lines of the candidate chunks in order, each with the number of its
\* chunk and its place in it
RECURSIVE PlacedFrom(_, _)
PlacedFrom(chunks, c) ==
    IF c > Len(chunks) THEN <<>>
    ELSE [p \in 1..Len(ChunkLines(chunks[c])) |->
             [chunk |-> c, pos |-> p, text |-> ChunkLines(chunks[c])[p]]]
         \o PlacedFrom(chunks, c + 1)

\* the numbers of the non-blank lines of a text, in order
NonBlankLines(ls) ==
    SelectSeq([i \in 1..Len(ls) |-> i], LAMBDA i : NonBlank(ls, i))

\* the non-blank lines that have a text once stripped and unmarked
TextLines(ls) ==
    SelectSeq([i \in 1..Len(ls) |-> i],
              LAMBDA i : NonBlank(ls, i) /\ Content(ls, i) # <<>>)

\* the lines placed in the chunks are the input lines idx, in order; two
\* lines of one chunk have no blank line between them; a heading is first
LinesKept(ls, idx, placed) ==
    /\ Len(placed) = Len(idx)
    /\ \A q \in 1..Len(idx) : placed[q].text = Content(ls, idx[q])
    /\ \A q \in 1..(Len(idx) - 1) :
          placed[q].chunk = placed[q + 1].chunk => idx[q + 1] = idx[q] + 1
    /\ \A q \in 1..Len(idx) : IsHeading(ls, idx[q]) => placed[q].pos = 1

\* C26 as stated: before the size filter every non-blank line of the input
\* is (stripped, a heading without its marker) a line of exactly one
\* candidate chunk, the lines keep their order, no chunk has lines from both
\* sides of a blank line, and a heading is the first line of its chunk.
C26_NothingLost ==
    lastOp = "chunk_faq" =>
        LET ls == SplitLines(lastArg.text)
        IN LinesKept(ls, NonBlankLines(ls), PlacedFrom(chunk_candidates(lastArg.text), 1))

\* C26 amended: the same of every non-blank line that has a text once it is
\* stripped and unmarked, and of the non-empty lines of the candidate
\* chunks: a heading of the marker only contributes no line.
C26_NothingLostButEmptyHeadings ==
    lastOp = "chunk_faq" =>
        LET ls == SplitLines(lastArg.text)
        IN LinesKept(ls, TextLines(ls),
                     SelectSeq(PlacedFrom(chunk_candidates(lastArg.text), 1),
                               LAMBDA l : l.text # <<>>))

C26_Witness ==
    /\ lastOp = "chunk_faq"
    /\ lastArg.text = Join(<<"\n">>, << <<"#">>,
                                        <<"a", "b", "c", "d">>,
                                        <<"#", " ", "P", "l", "a", "n", "s">>,
                                        <<" ", "a", "b", "c", "d", "e", " ">> >>)
    /\ chunk_candidates(lastArg.text) =
           << <<"a", "b", "c", "d">>,
              <<"P", "l", "a", "n", "s", "\n", "a", "b", "c", "d", "e">> >>

----------------------------------------------------------------------------
(* Properties of the orchestration paths *)

\* C15: in console_app.main and in io_loop.demo_turn_based_audio_session,
\* when the generation collaborator fails on a customer message, the loop
\* appends the fallback reply as the Bot turn after the customer turn and
\* keeps running.
C15_FallbackOnFailure ==
    [][(app \in {CONSOLE, DEMO} /\ genCalls' = genCalls + 1 /\ ~sent'[1].outcome.ok) =>
          /\ pc' = "running"
          /\ Len(turns') = Len(turns) + 2
          /\ turns'[Len(turns')].speaker = BOT
          /\ turns'[Len(turns')].text = FallbackPrefix \o sent'[1].outcome.error]_vars

\* C16: every augmented user message sent to the generation collaborator
\* has three sections in this order: the document context, the instructions
\* to answer only from the context and to flag missing coverage, and the
\* customer question.
C16_ThreeSections ==
    sent # <<>> =>
        LET msg == sent[1].user_message
        IN /\ Len(msg) = 3
           /\ msg[1].head = "Docs context:"
           /\ msg[2] = Instructions
           /\ msg[3].head = "Customer question:"

\* C17: in the console loop, after /human and until /bot, a customer message
\* is answered by a HumanAgent turn taken from the human prompt: no
\* generation call is made and no Bot turn is appended.
C17_HumanAnswers ==
    [][(app = CONSOLE /\ humanMode /\ Len(turns') > Len(turns)) =>
          /\ genCalls' = genCalls
          /\ branch' = "human"
          /\ Len(turns') = Len(turns) + 2
          /\ turns'[Len(turns) + 1].speaker = CUSTOMER
          /\ turns'[Len(turns) + 2].speaker = HUMAN_AGENT]_vars

\* C25: in console_app.main and io_loop.demo_turn_based_audio_session, after
\* any inputs and commands, every iteration that appends a customer turn
\* finds active_role Bot or HumanAgent right after it and takes the bot or
\* the human branch: the "No responder configured" branch is never taken.
C25_ResponderConfigured ==
    /\ [](app \in {CONSOLE, DEMO} => branch # "no_responder")
    /\ [][(app \in {CONSOLE, DEMO} /\ Len(turns') > Len(turns)) =>
             /\ turns'[Len(turns) + 1].speaker = CUSTOMER
             /\ branch' \in {"bot", "human"}]_vars

C25_Witness ==
    /\ app = CONSOLE
    /\ humanMode
    /\ Len(turns) = 4
    /\ turns[3].speaker = CUSTOMER
    /\ branch = "bot"
    /\ pc = "running"

====
